---- MODULE Spec2Model ----
(***************************************************************************)
(* Model of qval's QueryParamValidator: construction, the two-phase        *)
(* validation pass run by __enter__, the caller's block, the exception     *)
(* reclassification done by __exit__, and the ExcLogger it reports to.     *)
(* Further specifications over the same state cover a Validator chain on   *)
(* its own, the predicate builders, apply_to_request, writes to the        *)
(* FrozenBox view, a validator entered more than once, writes to the       *)
(* source dictionary, chains of undeclared names, and the qval decorator.  *)
(***************************************************************************)
EXTENDS Integers, Sequences, FiniteSets, TLC

\* ------------------------------------------------------------------------
\* Bounds
\* ------------------------------------------------------------------------
\* Largest total number of predicates registered over all parameters.
MaxPreds == 2
\* Largest number of logger factories held by the ExcLogger.
MaxSinks == 2
\* Largest number of predicates held by a Validator used on its own.
MaxChain == 3
\* Largest number of times the block of one validator is run.
MaxRuns == 2
\* Largest number of positional arguments of a decorated call.
MaxArgs == 3

\* Parameter names used in requests and declarations, in the order in
\* which a request lists them.
NameOrder == << "a", "b" >>
Names == { NameOrder[i] : i \in 1..Len(NameOrder) }

\* Raw query-string values, as sequences of characters.
RawStrings == { <<"-", "1">>, <<"0">>, <<"5">>, <<"x">> }

\* ------------------------------------------------------------------------
\* Python values: str and int
\* ------------------------------------------------------------------------
StrVal(s) == [t |-> "str", s |-> s, i |-> 0]
IntVal(n) == [t |-> "int", s |-> <<>>, i |-> n]
NoValue == [t |-> "none", s |-> <<>>, i |-> 0]

\* ------------------------------------------------------------------------
\* Insertion-ordered dictionaries: sequences of [k, v] items, keys distinct
\* ------------------------------------------------------------------------
Keys(d) == { d[i].k : i \in 1..Len(d) }
Has(d, key) == \E i \in 1..Len(d) : d[i].k = key
Get(d, key) == d[CHOOSE i \in 1..Len(d) : d[i].k = key].v
KeySeq(d) == [i \in 1..Len(d) |-> d[i].k]
\* Put that leaves the dictionary as it was
PutKeepsOld(d, key, val) == d

\* d[key] = val: overwrite in place, or insert at the end
Put(d, key, val) ==
    IF Has(d, key)
    THEN [i \in 1..Len(d) |-> IF d[i].k = key THEN [k |-> key, v |-> val] ELSE d[i]]
    ELSE Append(d, [k |-> key, v |-> val])

\* del d[key]; the key is in d
Del(d, key) == LET Other(it) == it.k # key IN SelectSeq(d, Other)

\* ------------------------------------------------------------------------
\* Exceptions
\* ------------------------------------------------------------------------
HTTP_400_BAD_REQUEST == 400
HTTP_500_INTERNAL_SERVER_ERROR == 500

NoDetail == [kind |-> "none", param |-> "", value |-> NoValue, expected |-> ""]
NoExc == [type |-> "None", status |-> 0, detail |-> NoDetail, cause |-> "None"]

\* An exception that is neither of the two classified errors
PlainExc(type) == [type |-> type, status |-> 0, detail |-> NoDetail, cause |-> "None"]

\* APIException(detail): status_code is always 500
APIException(detail, cause) ==
    [type |-> "APIException", status |-> HTTP_500_INTERNAL_SERVER_ERROR,
     detail |-> detail, cause |-> cause]

\* InvalidQueryParamException(detail, status)
InvalidQueryParamException(detail, status, cause) ==
    [type |-> "InvalidQueryParamException", status |-> status,
     detail |-> detail, cause |-> cause]

\* QvalValidationError(message)
QvalValidationError(detail) ==
    [type |-> "QvalValidationError", status |-> 0, detail |-> detail, cause |-> "None"]

\* An exception object of the given type, as user code would raise it
UserExc(type) ==
    CASE type = "InvalidQueryParamException" ->
            InvalidQueryParamException(
                [kind |-> "user", param |-> "", value |-> NoValue, expected |-> ""],
                HTTP_400_BAD_REQUEST, "None")
      [] type = "APIException" ->
            APIException([kind |-> "user", param |-> "", value |-> NoValue,
                          expected |-> ""], "None")
      [] OTHER -> PlainExc(type)

\* The fixed message of the error raised by __exit__
InternalDetail == [kind |-> "internal", param |-> "", value |-> NoValue, expected |-> ""]

\* ------------------------------------------------------------------------
\* Converters (factories)
\* ------------------------------------------------------------------------
CastOk(v) == [exc |-> NoExc, val |-> v]
CastRaise(e) == [exc |-> e, val |-> NoValue]

DigitChars == {"0", "1", "2", "3", "4", "5", "6", "7", "8", "9"}
DigitVal(c) ==
    CASE c = "0" -> 0 [] c = "1" -> 1 [] c = "2" -> 2 [] c = "3" -> 3
      [] c = "4" -> 4 [] c = "5" -> 5 [] c = "6" -> 6 [] c = "7" -> 7
      [] c = "8" -> 8 [] c = "9" -> 9

RECURSIVE DigitsValue(_, _)
DigitsValue(s, acc) ==
    IF s = <<>> THEN acc
    ELSE DigitsValue(Tail(s), acc * 10 + DigitVal(Head(s)))

\* int(s) on a string: optional sign, then one or more decimal digits
IntCast(s) ==
    LET signed == Len(s) > 0 /\ Head(s) \in {"-", "+"}
        body == IF signed THEN Tail(s) ELSE s
        sign == IF signed /\ Head(s) = "-" THEN -1 ELSE 1
    IN  IF body = <<>> \/ \E i \in 1..Len(body) : body[i] \notin DigitChars
        THEN CastRaise(PlainExc("ValueError"))
        ELSE CastOk(IntVal(sign * DigitsValue(body, 0)))

\* Converters a declaration may name
CastKinds == {"None", "int", "raiseTypeError", "raiseKeyError", "raiseOSError",
              "raiseInvalidQueryParam"}
PureCastKinds == {"None", "int"}

\* cast(raw): the outcome of calling the converter on a raw string
Cast(cast, s) ==
    CASE cast = "None" -> CastOk(StrVal(s))
      [] cast = "int" -> IntCast(s)
      [] cast = "raiseTypeError" -> CastRaise(PlainExc("TypeError"))
      [] cast = "raiseKeyError" -> CastRaise(PlainExc("KeyError"))
      [] cast = "raiseOSError" -> CastRaise(PlainExc("OSError"))
      [] cast = "raiseInvalidQueryParam" -> CastRaise(UserExc("InvalidQueryParamException"))

\* ------------------------------------------------------------------------
\* Predicates
\* ------------------------------------------------------------------------
\* predicates of the chains; "raiseInvalidQueryParam" is one more, a
\* predicate that raises the bad-input error itself
PredKinds == {"ge0", "ne0", "interval"}

PredTrue == [res |-> "true", exc |-> NoExc]
PredFalse == [res |-> "false", exc |-> NoExc]
PredRaise(e) == [res |-> "raise", exc |-> e]

\* Predicates made by the builders: lambda x: transform(x) <op> value
CompareOps == {"ge", "gt", "lt", "eq", "ne"}
Transforms == {"id", "len"}
BuilderValues == {0, 5}

\* the name under which a chain holds such a lambda
ComparisonName(cmp, value, transform) ==
    transform \o "." \o cmp \o "." \o ToString(value)
ComparisonParts == [cmp : CompareOps, value : BuilderValues, transform : Transforms]
ComparisonNames ==
    { ComparisonName(c.cmp, c.value, c.transform) : c \in ComparisonParts }
IsComparison(p) == p \in ComparisonNames
\* the parts of every name
ComparisonTable ==
    [p \in ComparisonNames |->
        CHOOSE c \in ComparisonParts :
            ComparisonName(c.cmp, c.value, c.transform) = p]
PartsOf(p) == ComparisonTable[p]

\* transform(x): the default lambda x: x, or len
Transform(t, v) ==
    CASE t = "id" -> CastOk(v)
      [] t = "len" -> IF v.t = "str" THEN CastOk(IntVal(Len(v.s)))
                      ELSE CastRaise(PlainExc("TypeError"))

\* x <cmp> value, value an int: a str is never equal to an int and cannot
\* be ordered with one
Compare(cmp, x, value) ==
    IF x.t = "int"
    THEN (IF CASE cmp = "ge" -> x.i >= value
               [] cmp = "gt" -> x.i > value
               [] cmp = "lt" -> x.i < value
               [] cmp = "eq" -> x.i = value
               [] cmp = "ne" -> x.i # value
          THEN PredTrue ELSE PredFalse)
    ELSE CASE cmp = "eq" -> PredFalse
           [] cmp = "ne" -> PredTrue
           [] OTHER -> PredRaise(PlainExc("TypeError"))

\* p(value): the outcome of calling one predicate
PredOutcome(p, v) ==
    CASE p = "ge0" ->
            IF v.t = "int"
            THEN (IF v.i >= 0 THEN PredTrue ELSE PredFalse)
            ELSE PredRaise(PlainExc("TypeError"))
      [] p = "ne0" ->
            IF v.t = "int"
            THEN (IF v.i # 0 THEN PredTrue ELSE PredFalse)
            ELSE PredTrue
      [] p = "interval" ->
            IF v.t = "int"
            THEN (IF 0 < v.i /\ v.i < 10
                  THEN PredTrue
                  ELSE PredRaise(QvalValidationError(
                           [kind |-> "custom", param |-> "", value |-> v,
                            expected |-> ""])))
            ELSE PredRaise(PlainExc("TypeError"))
      [] p = "raiseInvalidQueryParam" ->
            PredRaise(UserExc("InvalidQueryParamException"))
      [] IsComparison(p) ->
            LET c == PartsOf(p)
                x == Transform(c.transform, v)
            IN  IF x.exc # NoExc THEN PredRaise(x.exc)
                ELSE Compare(c.cmp, x.val, c.value)

\* ------------------------------------------------------------------------
\* Validator (predicate chain)
\* ------------------------------------------------------------------------
CallEvent(op, param, fn, arg) == [op |-> op, param |-> param, fn |-> fn, arg |-> arg]

\* Validator.add that puts the new predicate in front
ValidatorAddFirst(predicates, predicate) == <<predicate>> \o predicates

\* Validator.add(predicate): self.predicates.append(predicate)
ValidatorAdd(predicates, predicate) == Append(predicates, predicate)

\* Validator.__call__(value): applies the stored predicates in order and
\* returns False at the first falsy result; an exception raised by a
\* predicate leaves the call.  calls is the log of invocations made so far.
RECURSIVE ValidatorCall(_, _, _, _)
ValidatorCall(predicates, value, param, calls) ==
    IF predicates = <<>>
    THEN [res |-> "true", exc |-> NoExc, calls |-> calls]
    ELSE LET p == Head(predicates)
             o == PredOutcome(p, value)
             calls2 == Append(calls, CallEvent("pred", param, p, value))
         IN  IF o.res = "true"
             THEN ValidatorCall(Tail(predicates), value, param, calls2)
             ELSE [res |-> o.res, exc |-> o.exc, calls |-> calls2]

\* ------------------------------------------------------------------------
\* QueryParamValidator._validate
\* ------------------------------------------------------------------------
MissingDetail(param) ==
    [kind |-> "missing", param |-> param, value |-> NoValue, expected |-> ""]
InvalidTypeDetail(param, cast) ==
    [kind |-> "invalid_type", param |-> param, value |-> NoValue,
     expected |-> IF cast = "int" THEN "int" ELSE ""]
InvalidValueDetail(param, value) ==
    [kind |-> "invalid_value", param |-> param, value |-> value, expected |-> ""]

\* First loop without the except KeyError clause
CastFailureKeyErrorEscapes(param, cast, e) ==
    CASE e.type \in {"ValueError", "TypeError"} ->
            InvalidQueryParamException(InvalidTypeDetail(param, cast),
                                       HTTP_400_BAD_REQUEST, "None")
      [] OTHER -> e

\* First loop that catches ValueError only
CastFailureTypeErrorEscapes(param, cast, e) ==
    CASE e.type = "KeyError" ->
            InvalidQueryParamException(MissingDetail(param), HTTP_400_BAD_REQUEST,
                                       "None")
      [] e.type = "ValueError" ->
            InvalidQueryParamException(InvalidTypeDetail(param, cast),
                                       HTTP_400_BAD_REQUEST, "None")
      [] OTHER -> e

\* The exception a converter's failure is turned into by the first loop
CastFailure(param, cast, e) ==
    CASE e.type = "KeyError" ->
            InvalidQueryParamException(MissingDetail(param), HTTP_400_BAD_REQUEST,
                                       "None")
      [] e.type \in {"ValueError", "TypeError"} ->
            InvalidQueryParamException(InvalidTypeDetail(param, cast),
                                       HTTP_400_BAD_REQUEST, "None")
      [] OTHER -> e

\* First loop that goes on after a failure and reports the first one
RECURSIVE CastParamsAll(_, _, _, _, _)
CastParamsAll(i, factories, query_params, result, calls) ==
    IF i > Len(factories)
    THEN [exc |-> NoExc, result |-> result, calls |-> calls]
    ELSE LET param == factories[i].k
             cast == factories[i].v
             found == Has(query_params, param)
             raw == IF found THEN Get(query_params, param) ELSE NoValue
             o == IF found THEN Cast(cast, raw.s) ELSE CastRaise(PlainExc("KeyError"))
             calls2 == IF found THEN Append(calls, CallEvent("cast", param, cast, raw))
                       ELSE calls
             rest == CastParamsAll(i + 1, factories, query_params,
                                   IF o.exc = NoExc THEN Put(result, param, o.val)
                                   ELSE result, calls2)
         IN  IF o.exc # NoExc
             THEN [exc |-> CastFailure(param, cast, o.exc), result |-> rest.result,
                   calls |-> rest.calls]
             ELSE rest

\* First loop: cast the parameters to the required types, in the order of
\* the factories dictionary.
RECURSIVE CastParams(_, _, _, _, _)
CastParams(i, factories, query_params, result, calls) ==
    IF i > Len(factories)
    THEN [exc |-> NoExc, result |-> result, calls |-> calls]
    ELSE LET param == factories[i].k
             cast == factories[i].v
         IN  IF ~Has(query_params, param)
             THEN [exc |-> CastFailure(param, cast, PlainExc("KeyError")),
                   result |-> result, calls |-> calls]
             ELSE LET raw == Get(query_params, param)
                      o == Cast(cast, raw.s)
                      calls2 == Append(calls, CallEvent("cast", param, cast, raw))
                  IN  IF o.exc # NoExc
                      THEN [exc |-> CastFailure(param, cast, o.exc),
                            result |-> result, calls |-> calls2]
                      ELSE CastParams(i + 1, factories, query_params,
                                      Put(result, param, o.val), calls2)

\* Second loop that ignores the message of a QvalValidationError
PredFailureGeneric(param, value, o) ==
    CASE o.res = "false" \/ (o.res = "raise" /\ o.exc.type = "QvalValidationError") ->
            InvalidQueryParamException(InvalidValueDetail(param, value),
                                       HTTP_400_BAD_REQUEST, "QvalValidationError")
      [] OTHER -> o.exc

\* Second loop that reports every exception of a predicate as bad input
PredFailureCatchesAll(param, value, o) ==
    CASE o.res = "raise" /\ o.exc.type = "QvalValidationError" ->
            InvalidQueryParamException(o.exc.detail, HTTP_400_BAD_REQUEST,
                                       "QvalValidationError")
      [] OTHER ->
            InvalidQueryParamException(InvalidValueDetail(param, value),
                                       HTTP_400_BAD_REQUEST, "QvalValidationError")

\* The exception a failed chain is turned into by the second loop
PredFailure(param, value, o) ==
    CASE o.res = "false" ->
            InvalidQueryParamException(InvalidValueDetail(param, value),
                                       HTTP_400_BAD_REQUEST, "QvalValidationError")
      [] o.res = "raise" /\ o.exc.type = "QvalValidationError" ->
            InvalidQueryParamException(o.exc.detail, HTTP_400_BAD_REQUEST,
                                       "QvalValidationError")
      [] OTHER -> o.exc

\* Second loop that passes over the items still holding a raw string
RECURSIVE RunValidationsConvertedOnly(_, _, _, _)
RunValidationsConvertedOnly(j, params, result, calls) ==
    IF j > Len(result)
    THEN [exc |-> NoExc, result |-> result, calls |-> calls]
    ELSE LET param == result[j].k
             value == result[j].v
         IN  IF value.t = "str"
             THEN RunValidationsConvertedOnly(j + 1, params, result, calls)
             ELSE IF param \notin DOMAIN params
             THEN [exc |-> PlainExc("KeyError"), result |-> result, calls |-> calls]
             ELSE LET o == ValidatorCall(params[param], value, param, calls)
                  IN  IF o.res # "true"
                      THEN [exc |-> PredFailure(param, value, o), result |-> result,
                            calls |-> o.calls]
                      ELSE RunValidationsConvertedOnly(j + 1, params, result,
                                                       o.calls)

\* Second loop: run the validator of every item of the result dictionary;
\* self._params[param] raises KeyError for a key that has no Validator
RECURSIVE RunValidations(_, _, _, _)
RunValidations(j, params, result, calls) ==
    IF j > Len(result)
    THEN [exc |-> NoExc, result |-> result, calls |-> calls]
    ELSE LET param == result[j].k
             value == result[j].v
         IN  IF param \notin DOMAIN params
             THEN [exc |-> PlainExc("KeyError"), result |-> result, calls |-> calls]
             ELSE LET o == ValidatorCall(params[param], value, param, calls)
                  IN  IF o.res # "true"
                      THEN [exc |-> PredFailure(param, value, o), result |-> result,
                            calls |-> o.calls]
                      ELSE RunValidations(j + 1, params, result, o.calls)

\* _validate() that checks the raw values first and converts afterwards
ValidatePredicatesFirst(factories, query_params, params, result) ==
    LET r == RunValidations(1, params, result, <<>>)
    IN  IF r.exc # NoExc THEN r
        ELSE CastParams(1, factories, query_params, r.result, r.calls)

\* _validate() whose first loop reads the values from self.result
ValidateFromResult(factories, query_params, params, result) ==
    LET c == CastParams(1, factories, result, result, <<>>)
    IN  IF c.exc # NoExc THEN c
        ELSE RunValidations(1, params, c.result, c.calls)

\* _validate(): both loops
Validate(factories, query_params, params, result) ==
    LET c == CastParams(1, factories, query_params, result, <<>>)
    IN  IF c.exc # NoExc THEN c
        ELSE RunValidations(1, params, c.result, c.calls)

\* ------------------------------------------------------------------------
\* ExcLogger
\* ------------------------------------------------------------------------
SinkKinds == {"ok", "raisesError", "raisesTypeError"}

\* The loop of dump() ended, without an error, by the first factory that
\* raises
RECURSIVE DumpLoopStopsAtError(_, _, _)
DumpLoopStopsAtError(factories, i, invoked) ==
    IF i > Len(factories)
    THEN [exc |-> NoExc, invoked |-> invoked]
    ELSE IF factories[i] = "raisesTypeError"
         THEN [exc |-> PlainExc("TypeError"), invoked |-> Append(invoked, i)]
         ELSE IF factories[i] = "raisesError"
         THEN [exc |-> NoExc, invoked |-> Append(invoked, i)]
         ELSE DumpLoopStopsAtError(factories, i + 1, Append(invoked, i))

\* The loop of dump(): every factory is built and called; TypeError is
\* re-raised, every other exception is swallowed.
RECURSIVE DumpLoop(_, _, _)
DumpLoop(factories, i, invoked) ==
    IF i > Len(factories)
    THEN [exc |-> NoExc, invoked |-> invoked]
    ELSE IF factories[i] = "raisesTypeError"
         THEN [exc |-> PlainExc("TypeError"), invoked |-> Append(invoked, i)]
         ELSE DumpLoop(factories, i + 1, Append(invoked, i))

\* ExcLogger.dump / ExcLogger.error
Dump(enabled, factories) ==
    IF ~enabled
    THEN [exc |-> NoExc, invoked |-> <<>>]
    ELSE DumpLoop(factories, 1, <<>>)

\* ------------------------------------------------------------------------
\* QueryParamValidator.__exit__
\* ------------------------------------------------------------------------
\* __exit__ that returns True: whatever was raised is swallowed
ExitSwallows(exc, enabled, factories) ==
    [raised |-> NoExc, logged |-> 0, invoked |-> <<>>]

\* __exit__ that re-raises as APIException without reporting to the logger
ExitWithoutLog(exc, enabled, factories) ==
    [raised |-> IF exc.type \notin {"InvalidQueryParamException", "None"}
                THEN APIException(InternalDetail, exc.type) ELSE exc,
     logged |-> 0, invoked |-> <<>>]

\* __exit__ that lets every exception through as it is
ExitPassesThrough(exc, enabled, factories) ==
    [raised |-> exc, logged |-> 0, invoked |-> <<>>]

\* __exit__ that copies the original exception's detail into the APIException
ExitLeaksDetail(exc, enabled, factories) ==
    IF exc.type \notin {"InvalidQueryParamException", "None"}
    THEN LET d == Dump(enabled, factories)
         IN  [raised |-> IF d.exc # NoExc THEN d.exc
                         ELSE APIException(exc.detail, exc.type),
              logged |-> 1, invoked |-> d.invoked]
    ELSE [raised |-> exc, logged |-> 0, invoked |-> <<>>]

\* __exit__ that reports every exception to the logger, the bad-input error
\* included
ExitLogsBadInput(exc, enabled, factories) ==
    IF exc.type # "None"
    THEN LET d == Dump(enabled, factories)
         IN  [raised |-> IF d.exc # NoExc THEN d.exc
                         ELSE IF exc.type = "InvalidQueryParamException" THEN exc
                         ELSE APIException(InternalDetail, exc.type),
              logged |-> 1, invoked |-> d.invoked]
    ELSE [raised |-> exc, logged |-> 0, invoked |-> <<>>]

\* raised: the exception that leaves __exit__ or, when __exit__ returns None,
\* the exception it was given (which then keeps propagating).
Exit(exc, enabled, factories) ==
    IF exc.type \notin {"InvalidQueryParamException", "None"}
    THEN LET d == Dump(enabled, factories)
         IN  [raised |-> IF d.exc # NoExc THEN d.exc
                         ELSE APIException(InternalDetail, exc.type),
              logged |-> 1, invoked |-> d.invoked]
    ELSE [raised |-> exc, logged |-> 0, invoked |-> <<>>]

\* _cleanup_on_error() without stack.pop_all(): __exit__ is always called
CleanupAlways(exc) == 1

\* _cleanup_on_error(): the number of times the ExitStack calls __exit__,
\* given the exception raised by the body of the with statement
CleanupOnError(exc) == IF exc # NoExc THEN 1 ELSE 0

\* ------------------------------------------------------------------------
\* FrozenBox
\* ------------------------------------------------------------------------
\* __setattr__ that stores the value in the wrapped dictionary
FrozenBox__setattr__stores(dct, key, value) ==
    [exc |-> NoExc, dct |-> Put(dct, key, value)]

\* box.key = value: __setattr__ raises TypeError
FrozenBox__setattr__(dct, key, value) ==
    [exc |-> PlainExc("TypeError"), dct |-> dct]

\* box[key] = value: the class defines no __setitem__, so Python raises
\* TypeError
FrozenBox__setitem__(dct, key, value) ==
    [exc |-> PlainExc("TypeError"), dct |-> dct]

\* box.__dct__[key] = value: the attribute is the wrapped dictionary itself
FrozenBox__dct__setitem(dct, key, value) ==
    [exc |-> NoExc, dct |-> Put(dct, key, value)]

\* ------------------------------------------------------------------------
\* QueryParamValidator.__init__
\* ------------------------------------------------------------------------
\* self.result built from the declared names whatever box_all is
InitResultDeclaredOnly(query, factories, box) ==
    LET keys == KeySeq(factories)
    IN  IF \E i \in 1..Len(keys) : ~Has(query, keys[i])
        THEN [exc |-> PlainExc("KeyError"), result |-> <<>>]
        ELSE [exc |-> NoExc,
              result |-> [i \in 1..Len(keys) |->
                             [k |-> keys[i], v |-> Get(query, keys[i])]]]

\* self.result: the raw value of every key of query_params (box_all) or of
\* factories (otherwise); a key looked up in query_params may be missing.
InitResult(query, factories, box) ==
    LET keys == IF box THEN KeySeq(query) ELSE KeySeq(factories)
    IN  IF \E i \in 1..Len(keys) : ~Has(query, keys[i])
        THEN [exc |-> PlainExc("KeyError"), result |-> <<>>]
        ELSE [exc |-> NoExc,
              result |-> [i \in 1..Len(keys) |->
                             [k |-> keys[i], v |-> Get(query, keys[i])]]]

\* self._params made of the validators argument alone
InitParamsGivenOnly(res, vals) == vals

\* self._params: an empty Validator for every key of the result, updated
\* with the validators given to the constructor
InitParams(res, vals) ==
    [k \in Keys(res) \cup DOMAIN vals |->
        IF k \in DOMAIN vals THEN vals[k] ELSE <<>>]

\* ------------------------------------------------------------------------
\* QueryParamValidator.add_predicate and the builders
\* ------------------------------------------------------------------------
\* self._params.setdefault(param, Validator()); self._params[param].add(predicate)
add_predicate(params, param, predicate) ==
    [k \in DOMAIN params \cup {param} |->
        IF k = param
        THEN ValidatorAdd(IF param \in DOMAIN params THEN params[param] ELSE <<>>,
                          predicate)
        ELSE params[k]]

\* positive() as its docstring has it: transform(x) > 0
positive_gt(transform) == ComparisonName("gt", 0, transform)

\* the lambda each builder hands to check()
positive(transform) == ComparisonName("ge", 0, transform)
gt(value, transform) == ComparisonName("gt", value, transform)
lt(value, transform) == ComparisonName("lt", value, transform)
eq(value, transform) == ComparisonName("eq", value, transform)
nonzero(transform) == ComparisonName("ne", 0, transform)

\* ------------------------------------------------------------------------
\* QueryParamValidator.apply_to_request
\* ------------------------------------------------------------------------
\* the validator QueryParamValidator(request, factories, validators, box_all)
\* is after __init__
NewValidator(request, factories, vals, box_all) ==
    LET r == InitResult(request, factories, box_all)
    IN  [pc |-> IF r.exc # NoExc THEN "ctor_raised" ELSE "ready",
         query_params |-> request,
         result |-> r.result,
         _params |-> IF r.exc # NoExc THEN <<>> ELSE InitParams(r.result, vals),
         view |-> "None", raised |-> r.exc, validateExc |-> NoExc, calls |-> <<>>,
         exitCalls |-> 0]

\* apply_to_request that hands on no validators
apply_to_request_bare(request, factories, params, box_all) ==
    NewValidator(request, factories, <<>>, box_all)

\* self.__class__(make_request(request), self._factories, self._params,
\*                self._box_all)
apply_to_request(request, factories, params, box_all) ==
    NewValidator(request, factories, params, box_all)

\* ------------------------------------------------------------------------
\* The qval decorator
\* ------------------------------------------------------------------------
\* arguments of a decorated call: a dict of query parameters, a request
\* object holding one, any other object, the view; NoArg stands for None
DictArg(q) == [kind |-> "dict", q |-> q, tag |-> ""]
RequestArg(q) == [kind |-> "request", q |-> q, tag |-> ""]
ObjectArg(tag) == [kind |-> "object", q |-> <<>>, tag |-> tag]
ViewArg == [kind |-> "view", q |-> <<>>, tag |-> ""]
NoArg == [kind |-> "none", q |-> <<>>, tag |-> ""]

\* isinstance(x, fwk.RequestType): a dict or a Request
IsRequestType(x) == x.kind \in {"dict", "request"}

\* utils.make_request: DummyRequest(request) for a dict, else the request
make_request(request) ==
    IF request.kind = "dict" THEN RequestArg(request.q) ELSE request

\* inner() that looks for the request in the first argument only
locate_first_only(bound, arguments) ==
    IF bound # NoArg
    THEN [exc |-> NoExc, request |-> make_request(bound),
          args |-> << make_request(bound) >> \o arguments]
    ELSE IF arguments = <<>>
    THEN [exc |-> PlainExc("IndexError"), request |-> NoArg, args |-> arguments]
    ELSE IF IsRequestType(arguments[1])
    THEN [exc |-> NoExc, request |-> make_request(arguments[1]),
          args |-> [arguments EXCEPT ![1] = make_request(arguments[1])]]
    ELSE [exc |-> PlainExc("ValueError"), request |-> NoArg, args |-> arguments]

\* inner(), up to the with statement: the request and the list args; args[0]
\* of an empty list raises IndexError
locate(bound, arguments) ==
    IF bound # NoArg
    THEN [exc |-> NoExc, request |-> make_request(bound),
          args |-> << make_request(bound) >> \o arguments]
    ELSE IF arguments = <<>>
    THEN [exc |-> PlainExc("IndexError"), request |-> NoArg, args |-> arguments]
    ELSE IF IsRequestType(arguments[1])
    THEN [exc |-> NoExc, request |-> make_request(arguments[1]),
          args |-> [arguments EXCEPT ![1] = make_request(arguments[1])]]
    ELSE IF Len(arguments) > 1 /\ IsRequestType(arguments[2])
    THEN [exc |-> NoExc, request |-> make_request(arguments[2]),
          args |-> [arguments EXCEPT ![2] = make_request(arguments[2])]]
    ELSE [exc |-> PlainExc("ValueError"), request |-> NoArg, args |-> arguments]

\* f(*args, params, **kwargs)
call_f(arguments, params, keywords) ==
    [called |-> TRUE, args |-> Append(arguments, params), kwargs |-> keywords,
     ret |-> "None"]

\* ------------------------------------------------------------------------
\* QueryParamValidator.__enter__
\* ------------------------------------------------------------------------
\* v is the outcome of _validate(), run inside _cleanup_on_error()
EnterSession(v, enabled, factories) ==
    LET n == CleanupOnError(v.exc)
        x == IF n > 0 THEN Exit(v.exc, enabled, factories)
             ELSE [raised |-> v.exc, logged |-> 0, invoked |-> <<>>]
    IN  [raised |-> x.raised,
         view |-> IF x.raised = NoExc THEN "result" ELSE "None",
         exitCalls |-> n, logCalls |-> x.logged, sinkCalls |-> x.invoked]

\* ------------------------------------------------------------------------
\* State
\* ------------------------------------------------------------------------
VARIABLES
    pc,             \* where the caller is: new, ctor_raised, ready,
                    \* enter_raised, block, exited, block_raised
    query_params,   \* the request's parameter dictionary (self._query_params)
    _factories,     \* self._factories: ordered {param -> converter}
    validators,     \* the validators argument of the constructor
    _box_all,       \* self._box_all
    result,         \* self.result
    _params,        \* self._params: {param -> predicates of its Validator}
    view,           \* the FrozenBox yielded by __enter__: "None", or "result"
                    \* when it wraps self.result
    raised,         \* the exception that left the last operation
    validateExc,    \* the exception raised by the last _validate()
    blockExc,       \* the exception raised by the caller's block
    calls,          \* converter and predicate invocations of the last pass
    exitCalls,      \* calls of __exit__ in this acquisition
    blockRuns,      \* executions of the caller's block
    logCalls,       \* calls of utils.log.error
    sinkCalls,      \* logger factories invoked by the last log call
    log_enabled,    \* ExcLogger._enabled
    log_factories,  \* ExcLogger.factories
    op,             \* the last call made outside the with statement
    returned,       \* what that call returned: "None", "self", "True", "False"
    registered,     \* the predicates registered after construction, in call
                    \* order: [param, predicate]
    other,          \* the validator returned by apply_to_request: its pc,
                    \* query_params, result, _params, view, and the outcome
                    \* of its __enter__
    shared,         \* the parameters whose Validator object both validators hold
    appliedAt,      \* Len(registered) when apply_to_request was called
    predicates,     \* Validator.predicates of a Validator used on its own
    request_,       \* the request_ argument of qval(): NoArg for None
    args,           \* the positional arguments of the decorated call
    kwargs,         \* its keyword arguments
    inner_args,     \* the list args of inner(), once the request is located
    handled         \* the call of the wrapped function: whether it was made,
                    \* its positional and keyword arguments, what it returned

\* what the operations on other objects leave alone, and what a session
\* leaves alone
session == <<pc, query_params, _factories, validators, _box_all, result, _params,
             view, validateExc, blockExc, exitCalls, blockRuns, logCalls,
             sinkCalls, log_enabled, log_factories>>
reuse == <<other, shared, appliedAt>>
decorated == <<request_, args, kwargs, inner_args, handled>>
outside == <<op, returned, registered, reuse, predicates, decorated>>

vars == <<session, raised, calls, outside>>

config == <<query_params, _factories, validators, _box_all>>
logger == <<log_enabled, log_factories>>

\* ------------------------------------------------------------------------
\* Inputs
\* ------------------------------------------------------------------------
RawValues == { StrVal(s) : s \in RawStrings }

\* Sequences of distinct parameter names
NameSeqs ==
    { ks \in UNION { [1..n -> Names] : n \in 0..Cardinality(Names) } :
        \A i, j \in 1..Len(ks) : i # j => ks[i] # ks[j] }

\* Ordered dictionaries from parameter names to elements of V
DictsOver(V) ==
    UNION { { [i \in 1..Len(ks) |-> [k |-> ks[i], v |-> vs[i]]] :
                vs \in [1..Len(ks) -> V] } : ks \in NameSeqs }

\* Request dictionaries: the keys of a request keep the order of NameOrder
\* (declarations come in every order, so every relative order of request
\* keys and declarations occurs)
IsListed(S) == LET Test(n) == n \in S IN SelectSeq(NameOrder, Test)
QueryDicts ==
    UNION { { [i \in 1..Len(IsListed(S)) |-> [k |-> IsListed(S)[i], v |-> vs[i]]] :
                vs \in [1..Len(IsListed(S)) -> RawValues] } : S \in SUBSET Names }

\* Non-empty predicate lists of at most n predicates
Chains(n) == UNION { [1..m -> PredKinds] : m \in 1..n }

RECURSIVE TotalPreds(_, _)
TotalPreds(f, D) ==
    IF D = {} THEN 0
    ELSE LET k == CHOOSE x \in D : TRUE
         IN  Len(f[k]) + TotalPreds(f, D \ {k})

\* Validators mappings holding at most MaxPreds predicates altogether
ValidatorArgs ==
    { f \in UNION { [D -> Chains(MaxPreds)] : D \in SUBSET Names } :
        TotalPreds(f, DOMAIN f) <= MaxPreds }

LoggerConfigs == UNION { [1..n -> SinkKinds] : n \in 0..MaxSinks }

\* ExcLogger.detect_loggers() without configuration: [logging.getLogger]
DefaultLoggers == << "ok" >>

BlockExcTypes == {"ValueError", "KeyError", "OSError", "APIException",
                  "InvalidQueryParamException"}

\* ------------------------------------------------------------------------
\* Initial states: the arguments of validate() and the logger's state
\* ------------------------------------------------------------------------
\* any converters, no predicates
InitConversion ==
    /\ _factories \in DictsOver(CastKinds)
    /\ query_params \in QueryDicts
    /\ _box_all \in BOOLEAN
    /\ validators = <<>>
    /\ log_enabled = TRUE
    /\ log_factories = DefaultLoggers

\* converters None and int, any predicates
InitPredicates ==
    /\ _factories \in DictsOver(PureCastKinds)
    /\ query_params \in QueryDicts
    /\ _box_all \in BOOLEAN
    /\ validators \in ValidatorArgs
    /\ log_enabled = TRUE
    /\ log_factories = DefaultLoggers

\* one declared parameter, no predicate or one that raises, any logger
InitLogging ==
    /\ _factories \in { << [k |-> "a", v |-> c] >> : c \in {"None", "int", "raiseOSError"} }
    /\ query_params = << [k |-> "a", v |-> StrVal(<<"x">>)] >>
    /\ _box_all = TRUE
    /\ validators \in { <<>>, [k \in {"a"} |-> << "ge0" >>],
                         [k \in {"a"} |-> << "raiseInvalidQueryParam" >>] }
    /\ log_enabled \in BOOLEAN
    /\ log_factories \in LoggerConfigs

NoOp == CallEvent("", "", "", NoValue)

\* apply_to_request has not been called
NoOther ==
    [pc |-> "none", query_params |-> <<>>, result |-> <<>>, _params |-> <<>>,
     view |-> "None", raised |-> NoExc, validateExc |-> NoExc, calls |-> <<>>,
     exitCalls |-> 0]

\* the wrapped function has not been called
NotHandled == [called |-> FALSE, args |-> <<>>, kwargs |-> <<>>, ret |-> "None"]

\* no decorated call is under way
Undecorated ==
    /\ request_ = NoArg
    /\ args = <<>>
    /\ kwargs = <<>>
    /\ inner_args = <<>>
    /\ handled = NotHandled

\* no method has been called on the validator
Unused ==
    /\ op = NoOp
    /\ returned = "None"
    /\ registered = <<>>
    /\ other = NoOther
    /\ shared = {}
    /\ appliedAt = 0
    /\ predicates = <<>>

\* nothing has been called yet outside the with statement
Untouched == Unused /\ Undecorated

\* no pass has run
Blank ==
    /\ result = <<>>
    /\ _params = <<>>
    /\ view = "None"
    /\ raised = NoExc
    /\ validateExc = NoExc
    /\ blockExc = NoExc
    /\ calls = <<>>
    /\ exitCalls = 0
    /\ blockRuns = 0
    /\ logCalls = 0
    /\ sinkCalls = <<>>

\* the validator has not been constructed
Unbuilt == pc = "new" /\ Blank

Init ==
    /\ Untouched
    /\ Unbuilt
    /\ (InitConversion \/ InitPredicates \/ InitLogging)

\* ------------------------------------------------------------------------
\* Actions
\* ------------------------------------------------------------------------
\* validate(request, validators, box_all, **factories)
Construct ==
    /\ pc = "new"
    /\ LET r == InitResult(query_params, _factories, _box_all)
       IN  IF r.exc # NoExc
           THEN /\ pc' = "ctor_raised"
                /\ raised' = r.exc
                /\ UNCHANGED <<result, _params>>
           ELSE /\ pc' = "ready"
                /\ result' = r.result
                /\ _params' = InitParams(r.result, validators)
                /\ UNCHANGED raised
    /\ UNCHANGED <<config, logger, view, validateExc, blockExc, calls, exitCalls,
                   blockRuns, logCalls, sinkCalls>>
    /\ UNCHANGED outside

\* with params as p: the __enter__ call
Enter ==
    /\ pc = "ready"
    /\ LET v == Validate(_factories, query_params, _params, result)
           e == EnterSession(v, log_enabled, log_factories)
       IN  /\ result' = v.result
           /\ calls' = v.calls
           /\ validateExc' = v.exc
           /\ raised' = e.raised
           /\ view' = e.view
           /\ exitCalls' = e.exitCalls
           /\ logCalls' = e.logCalls
           /\ sinkCalls' = e.sinkCalls
           /\ pc' = IF e.raised = NoExc THEN "block" ELSE "enter_raised"
    /\ UNCHANGED <<config, logger, _params, blockExc, blockRuns>>
    /\ UNCHANGED outside

\* the block runs to its end, then __exit__(None, None, None)
BlockReturn ==
    /\ pc = "block"
    /\ LET x == Exit(NoExc, log_enabled, log_factories)
       IN  /\ raised' = x.raised
           /\ logCalls' = logCalls + x.logged
           /\ sinkCalls' = x.invoked
    /\ blockRuns' = blockRuns + 1
    /\ exitCalls' = exitCalls + 1
    /\ pc' = "exited"
    /\ UNCHANGED <<config, logger, result, _params, view, validateExc, blockExc,
                   calls>>
    /\ UNCHANGED outside

\* the block raises, then __exit__(type, value, traceback)
BlockRaise ==
    /\ pc = "block"
    /\ \E t \in BlockExcTypes :
        LET x == Exit(UserExc(t), log_enabled, log_factories)
        IN  /\ blockExc' = UserExc(t)
            /\ raised' = x.raised
            /\ logCalls' = logCalls + x.logged
            /\ sinkCalls' = x.invoked
    /\ blockRuns' = blockRuns + 1
    /\ exitCalls' = exitCalls + 1
    /\ pc' = "block_raised"
    /\ UNCHANGED <<config, logger, result, _params, view, validateExc, calls>>
    /\ UNCHANGED outside

Next == Construct \/ Enter \/ BlockReturn \/ BlockRaise

Spec == Init /\ [][Next]_vars

\* ------------------------------------------------------------------------
\* A Validator used on its own
\* ------------------------------------------------------------------------
\* no validator has been constructed
NoSession ==
    /\ pc = "none"
    /\ query_params = <<>>
    /\ _factories = <<>>
    /\ validators = <<>>
    /\ _box_all = TRUE
    /\ result = <<>>
    /\ _params = <<>>
    /\ view = "None"
    /\ validateExc = NoExc
    /\ blockExc = NoExc
    /\ exitCalls = 0
    /\ blockRuns = 0
    /\ logCalls = 0
    /\ sinkCalls = <<>>
    /\ log_enabled = TRUE
    /\ log_factories = DefaultLoggers

\* values a chain is called with
ChainValues == { IntVal(-1), IntVal(0), IntVal(5), StrVal(<<"x">>) }

\* Validator(*predicates)
InitChain ==
    /\ NoSession
    /\ op = NoOp
    /\ returned = "None"
    /\ registered = <<>>
    /\ other = NoOther
    /\ shared = {}
    /\ appliedAt = 0
    /\ Undecorated
    /\ raised = NoExc
    /\ calls = <<>>
    /\ predicates \in UNION { [1..m -> PredKinds] : m \in 0..MaxChain }

\* validator.add(predicate)
Add ==
    /\ Len(predicates) <= MaxChain
    /\ \E p \in PredKinds :
          /\ predicates' = ValidatorAdd(predicates, p)
          /\ op' = CallEvent("add", "", p, NoValue)
    /\ returned' = "self"
    /\ raised' = NoExc
    /\ calls' = <<>>
    /\ UNCHANGED <<session, registered, reuse, decorated>>

\* validator(value)
Call ==
    /\ \E value \in ChainValues :
          LET o == ValidatorCall(predicates, value, "", <<>>)
          IN  /\ op' = CallEvent("call", "", "", value)
              /\ calls' = o.calls
              /\ raised' = o.exc
              /\ returned' = CASE o.res = "true" -> "True"
                                [] o.res = "false" -> "False"
                                [] OTHER -> "None"
    /\ UNCHANGED <<session, registered, reuse, predicates, decorated>>

NextChain == Add \/ Call

SpecChain == InitChain /\ [][NextChain]_vars

\* ------------------------------------------------------------------------
\* Registering predicates on a constructed validator
\* ------------------------------------------------------------------------
\* calls of the builders on the declared parameter
BuilderCalls ==
    { [name |-> n, param |-> "a", value |-> v, transform |-> t, predicate |-> ""] :
        n \in {"gt", "lt", "eq"}, v \in BuilderValues, t \in Transforms }
    \cup
    { [name |-> n, param |-> "a", value |-> 0, transform |-> t, predicate |-> ""] :
        n \in {"positive", "nonzero"}, t \in Transforms }

\* calls of check and add_predicate with a predicate of the caller
CheckCalls ==
    { [name |-> n, param |-> k, value |-> 0, transform |-> "id", predicate |-> p] :
        n \in {"check", "add_predicate"}, k \in Names, p \in {"interval", "ne0"} }

\* the predicate a call registers
PredicateOf(c) ==
    CASE c.name = "positive" -> positive(c.transform)
      [] c.name = "gt" -> gt(c.value, c.transform)
      [] c.name = "lt" -> lt(c.value, c.transform)
      [] c.name = "eq" -> eq(c.value, c.transform)
      [] c.name = "nonzero" -> nonzero(c.transform)
      [] OTHER -> c.predicate

\* one declared parameter, present in the request; no validators argument
BuilderInputs ==
    /\ _factories \in { << [k |-> "a", v |-> c] >> : c \in PureCastKinds }
    /\ query_params \in { << [k |-> "a", v |-> r] >> : r \in RawValues }
    /\ _box_all = TRUE
    /\ validators = <<>>
    /\ log_enabled = TRUE
    /\ log_factories = DefaultLoggers

\* params.add_predicate(...), params.check(...), params.positive(...), ...
\* A Validator object that the other validator holds too shows the new
\* predicate there as well.
Register(C) ==
    /\ pc = "ready"
    /\ Len(registered) < MaxPreds
    /\ \E c \in C :
          LET p == PredicateOf(c)
          IN  /\ _params' = add_predicate(_params, c.param, p)
              /\ registered' = Append(registered, [param |-> c.param, predicate |-> p])
              /\ op' = CallEvent(c.name, c.param, c.transform, IntVal(c.value))
              /\ returned' = IF c.name = "add_predicate" THEN "None" ELSE "self"
              /\ other' = IF c.param \in shared
                           THEN [other EXCEPT !._params[c.param] = ValidatorAdd(@, p)]
                           ELSE other
    /\ raised' = NoExc
    /\ UNCHANGED <<pc, config, logger, result, view, validateExc, blockExc, calls,
                   exitCalls, blockRuns, logCalls, sinkCalls, shared, appliedAt,
                   predicates, decorated>>

\* ------------------------------------------------------------------------
\* One configured validator applied to another request
\* ------------------------------------------------------------------------
\* registrations made in these runs
ReuseCalls ==
    { c \in BuilderCalls \cup CheckCalls :
        /\ c.name \in {"check", "gt"}
        /\ c.transform = "id"
        /\ c.value = 0
        /\ c.predicate \in {"", "interval"} }

\* requests the validator is applied to
ReuseRequests ==
    { <<>>,
      << [k |-> "a", v |-> StrVal(<<"0">>)] >>,
      << [k |-> "a", v |-> StrVal(<<"5">>)] >>,
      << [k |-> "a", v |-> StrVal(<<"x">>)] >>,
      << [k |-> "b", v |-> StrVal(<<"0">>)] >>,
      << [k |-> "a", v |-> StrVal(<<"5">>)], [k |-> "b", v |-> StrVal(<<"0">>)] >> }

\* one declared parameter, with or without a validators argument
ReuseInputs ==
    /\ _factories = << [k |-> "a", v |-> "int"] >>
    /\ query_params \in { << [k |-> "a", v |-> StrVal(r)] >> : r \in {<<"5">>, <<"x">>} }
    /\ _box_all \in BOOLEAN
    /\ validators \in { <<>>, [k \in {"a"} |-> << "ne0" >>] }
    /\ log_enabled = TRUE
    /\ log_factories = DefaultLoggers

\* params.apply_to_request(request)
ApplyToRequest ==
    /\ pc \in {"ready", "block", "enter_raised"}
    /\ other.pc = "none"
    /\ \E request \in ReuseRequests :
          LET new == apply_to_request(request, _factories, _params, _box_all)
          IN  /\ other' = new
              /\ raised' = new.raised
              /\ returned' = IF new.raised = NoExc THEN "new" ELSE "None"
              /\ shared' = IF new.raised = NoExc THEN DOMAIN _params ELSE {}
    /\ appliedAt' = Len(registered)
    /\ op' = CallEvent("apply_to_request", "", "", NoValue)
    /\ UNCHANGED <<session, calls, registered, predicates, decorated>>

\* with params.apply_to_request(request) as p: the __enter__ call
EnterOther ==
    /\ other.pc = "ready"
    /\ LET v == Validate(_factories, other.query_params, other._params, other.result)
           e == EnterSession(v, log_enabled, log_factories)
       IN  /\ other' = [other EXCEPT !.result = v.result,
                                      !.calls = v.calls,
                                      !.validateExc = v.exc,
                                      !.raised = e.raised,
                                      !.view = e.view,
                                      !.exitCalls = e.exitCalls,
                                      !.pc = IF e.raised = NoExc THEN "block"
                                             ELSE "enter_raised"]
           /\ raised' = e.raised
           /\ logCalls' = logCalls + e.logCalls
           /\ sinkCalls' = e.sinkCalls
    /\ UNCHANGED <<pc, config, logger, result, _params, view, validateExc, blockExc,
                   calls, exitCalls, blockRuns, op, returned, registered, shared,
                   appliedAt, predicates, decorated>>

NextReuse ==
    Construct \/ Register(ReuseCalls) \/ Enter \/ ApplyToRequest \/ EnterOther

InitReuse == Untouched /\ Unbuilt /\ ReuseInputs

SpecReuse == InitReuse /\ [][NextReuse]_vars

\* ------------------------------------------------------------------------
\* The caller's use of the yielded view
\* ------------------------------------------------------------------------
\* keys and values the caller writes: a key of the view and a new one
WriteKeys == {"a", "n"}
WriteValues == { IntVal(7) }

\* one or two declared parameters, any request
ViewInputs ==
    /\ _factories \in { << [k |-> "a", v |-> "int"] >>,
                        << [k |-> "a", v |-> "None"] >>,
                        << [k |-> "a", v |-> "int"], [k |-> "b", v |-> "None"] >> }
    /\ query_params \in QueryDicts
    /\ _box_all \in BOOLEAN
    /\ validators = <<>>
    /\ log_enabled = TRUE
    /\ log_factories = DefaultLoggers

\* what a write on the view leaves alone; the view wraps self.result
beside_view == <<pc, config, logger, _params, view, validateExc, blockExc, calls,
                 exitCalls, blockRuns, logCalls, sinkCalls, registered, reuse,
                 predicates, decorated>>

\* p[key] = value
SetItem ==
    /\ view = "result"
    /\ \E key \in WriteKeys, value \in WriteValues :
          LET w == FrozenBox__setitem__(result, key, value)
          IN  /\ result' = w.dct
              /\ raised' = w.exc
              /\ op' = CallEvent("setitem", key, "", value)
    /\ returned' = "None"
    /\ UNCHANGED beside_view

\* p.key = value
SetAttr ==
    /\ view = "result"
    /\ \E key \in WriteKeys, value \in WriteValues :
          LET w == FrozenBox__setattr__(result, key, value)
          IN  /\ result' = w.dct
              /\ raised' = w.exc
              /\ op' = CallEvent("setattr", key, "", value)
    /\ returned' = "None"
    /\ UNCHANGED beside_view

\* p.__dct__[key] = value
DctSetItem ==
    /\ view = "result"
    /\ \E key \in WriteKeys, value \in WriteValues :
          LET w == FrozenBox__dct__setitem(result, key, value)
          IN  /\ result' = w.dct
              /\ raised' = w.exc
              /\ op' = CallEvent("dct_setitem", key, "", value)
    /\ returned' = "None"
    /\ UNCHANGED beside_view

\* with params as p: once more, after the with statement has been left
Reenter ==
    /\ pc \in {"enter_raised", "exited", "block_raised"}
    /\ blockRuns < MaxRuns
    /\ LET v == Validate(_factories, query_params, _params, result)
           e == EnterSession(v, log_enabled, log_factories)
       IN  /\ result' = v.result
           /\ calls' = v.calls
           /\ validateExc' = v.exc
           /\ raised' = e.raised
           /\ view' = e.view
           /\ exitCalls' = e.exitCalls
           /\ logCalls' = e.logCalls
           /\ sinkCalls' = e.sinkCalls
           /\ pc' = IF e.raised = NoExc THEN "block" ELSE "enter_raised"
    /\ blockExc' = NoExc
    /\ UNCHANGED <<config, logger, _params, blockRuns>>
    /\ UNCHANGED outside

NextView ==
    \/ Construct \/ Enter \/ BlockReturn \/ Reenter
    \/ SetItem \/ SetAttr \/ DctSetItem

InitView == Untouched /\ Unbuilt /\ ViewInputs

SpecView == InitView /\ [][NextView]_vars

\* ------------------------------------------------------------------------
\* One validator entered more than once
\* ------------------------------------------------------------------------
\* one or two declared parameters, any request, no chain or one
InitReenter ==
    /\ Untouched
    /\ Unbuilt
    /\ _factories \in { << [k |-> "a", v |-> "int"] >>,
                        << [k |-> "a", v |-> "int"], [k |-> "b", v |-> "None"] >>,
                        << [k |-> "b", v |-> "int"], [k |-> "a", v |-> "int"] >> }
    /\ query_params \in QueryDicts
    /\ _box_all \in BOOLEAN
    /\ validators \in { <<>>, [k \in {"a"} |-> << "interval" >>],
                         [k \in {"b"} |-> << "ne0", "ge0" >>] }
    /\ log_enabled = TRUE
    /\ log_factories = DefaultLoggers

NextReenter == Construct \/ Enter \/ BlockReturn \/ BlockRaise \/ Reenter

SpecReenter == InitReenter /\ [][NextReenter]_vars

\* ------------------------------------------------------------------------
\* The caller's writes to the dictionary the validator was built from
\* ------------------------------------------------------------------------
\* DummyRequest keeps the dictionary it is given and get_request_params
\* returns that dictionary, so self._query_params is the caller's object.

\* request[key] = value, between the constructor and the with statement
SourceSetItem ==
    /\ pc = "ready"
    /\ \E key \in Names, value \in RawValues :
          query_params' = Put(query_params, key, value)
    /\ UNCHANGED <<pc, _factories, validators, _box_all, logger, result, _params,
                   view, validateExc, blockExc, exitCalls, blockRuns, logCalls,
                   sinkCalls, raised, calls, outside>>

\* del request[key], between the constructor and the with statement
SourceDelItem ==
    /\ pc = "ready"
    /\ \E key \in Keys(query_params) :
          query_params' = Del(query_params, key)
    /\ UNCHANGED <<pc, _factories, validators, _box_all, logger, result, _params,
                   view, validateExc, blockExc, exitCalls, blockRuns, logCalls,
                   sinkCalls, raised, calls, outside>>

NextSource == Construct \/ SourceSetItem \/ SourceDelItem \/ Enter

InitSource == Untouched /\ Unbuilt /\ ViewInputs

SpecSource == InitSource /\ [][NextSource]_vars

\* ------------------------------------------------------------------------
\* Predicates for a parameter that is not declared
\* ------------------------------------------------------------------------
\* builder calls on the undeclared parameter, check calls on either
UndeclaredCalls ==
    { [c EXCEPT !.param = "b"] :
        c \in { x \in BuilderCalls : x.name \in {"eq", "gt", "nonzero"} } }
    \cup { c \in CheckCalls : c.name = "check" /\ c.predicate = "ne0" }

\* "a" is declared, "b" is not; the request may hold either; the validators
\* argument may hold a chain for "b"
InitUndeclared ==
    /\ Untouched
    /\ Unbuilt
    /\ _factories = << [k |-> "a", v |-> "int"] >>
    /\ query_params \in
          { q \in QueryDicts :
              \A i \in 1..Len(q) : q[i].v.s \in { <<"5">>, <<"x">> } }
    /\ _box_all \in BOOLEAN
    /\ validators \in { <<>>, [k \in {"b"} |-> << "ne0" >>],
                         [k \in {"b"} |-> << eq(0, "id") >>] }
    /\ log_enabled = TRUE
    /\ log_factories = DefaultLoggers

NextUndeclared == Construct \/ Register(UndeclaredCalls) \/ Enter

SpecUndeclared == InitUndeclared /\ [][NextUndeclared]_vars

\* ------------------------------------------------------------------------
\* A call of a function wrapped by @qval(factories, validators, box_all)
\* ------------------------------------------------------------------------
RequestA == << [k |-> "a", v |-> StrVal(<<"5">>)] >>
RequestB == << [k |-> "a", v |-> StrVal(<<"0">>)], [k |-> "b", v |-> StrVal(<<"x">>)] >>

\* positional arguments of the call, and the pre-bound request
ArgChoices == { DictArg(RequestA), RequestArg(RequestB), ObjectArg("self"),
                ObjectArg("x") }
BoundChoices == { NoArg, DictArg(RequestB), RequestArg(RequestA) }
KwargChoices == { <<>>, << [k |-> "page", v |-> IntVal(1)] >> }
\* what the wrapped function returns
HandlerValues == { "r1", "r2" }

\* the decorator's arguments and the arguments of one call
InitDecorator ==
    /\ Unused
    /\ Blank
    /\ pc = "call"
    /\ query_params = <<>>
    /\ _factories = << [k |-> "a", v |-> "int"] >>
    /\ validators \in { <<>>, [k \in {"a"} |-> << "ne0" >>] }
    /\ _box_all \in BOOLEAN
    /\ log_enabled = TRUE
    /\ log_factories = DefaultLoggers
    /\ request_ \in BoundChoices
    /\ args \in UNION { [1..n -> ArgChoices] : n \in 0..MaxArgs }
    /\ kwargs \in KwargChoices
    /\ inner_args = <<>>
    /\ handled = NotHandled

\* inner(*args, **kwargs) up to validate(request, ...)
Locate ==
    /\ pc = "call"
    /\ LET o == locate(request_, args)
       IN  /\ raised' = o.exc
           /\ inner_args' = o.args
           /\ query_params' = o.request.q
           /\ pc' = IF o.exc # NoExc THEN "call_raised" ELSE "new"
    /\ UNCHANGED <<_factories, validators, _box_all, logger, result, _params, view,
                   validateExc, blockExc, calls, exitCalls, blockRuns, logCalls,
                   sinkCalls, op, returned, registered, reuse, predicates, request_,
                   args, kwargs, handled>>

\* return f(*args, params, **kwargs), then __exit__(None, None, None)
HandlerReturn ==
    /\ pc = "block"
    /\ ~handled.called
    /\ \E r \in HandlerValues :
          LET x == Exit(NoExc, log_enabled, log_factories)
          IN  /\ handled' = [call_f(inner_args, ViewArg, kwargs) EXCEPT !.ret = r]
              /\ raised' = x.raised
              /\ returned' = IF x.raised = NoExc THEN r ELSE "None"
              /\ logCalls' = logCalls + x.logged
              /\ sinkCalls' = x.invoked
    /\ blockRuns' = blockRuns + 1
    /\ exitCalls' = exitCalls + 1
    /\ pc' = "exited"
    /\ UNCHANGED <<config, logger, result, _params, view, validateExc, blockExc,
                   calls, op, registered, reuse, predicates, request_, args, kwargs,
                   inner_args>>

\* f(*args, params, **kwargs) raises, then __exit__(type, value, traceback)
HandlerRaise ==
    /\ pc = "block"
    /\ ~handled.called
    /\ \E t \in BlockExcTypes :
          LET x == Exit(UserExc(t), log_enabled, log_factories)
          IN  /\ blockExc' = UserExc(t)
              /\ raised' = x.raised
              /\ logCalls' = logCalls + x.logged
              /\ sinkCalls' = x.invoked
    /\ handled' = call_f(inner_args, ViewArg, kwargs)
    /\ returned' = "None"
    /\ blockRuns' = blockRuns + 1
    /\ exitCalls' = exitCalls + 1
    /\ pc' = "block_raised"
    /\ UNCHANGED <<config, logger, result, _params, view, validateExc, calls, op,
                   registered, reuse, predicates, request_, args, kwargs, inner_args>>

NextDecorator == Locate \/ Construct \/ Enter \/ HandlerReturn \/ HandlerRaise

SpecDecorator == InitDecorator /\ [][NextDecorator]_vars

NextBuilders == Construct \/ Register(BuilderCalls \cup CheckCalls) \/ Enter

InitBuilders == Untouched /\ Unbuilt /\ BuilderInputs

SpecBuilders == InitBuilders /\ [][NextBuilders]_vars

\* ------------------------------------------------------------------------
\* What the inputs determine, independently of the pass
\* ------------------------------------------------------------------------
Entered == pc \in {"enter_raised", "block", "exited", "block_raised"}

DeclIdx == 1..Len(_factories)
Present(i) == Has(query_params, _factories[i].k)
\* cast(raw) of the i-th declared parameter, which must be present
Converted(i) == Cast(_factories[i].v, Get(query_params, _factories[i].k).s)
AllPresent == \A i \in DeclIdx : Present(i)
AllConvert == \A i \in DeclIdx : Present(i) => Converted(i).exc = NoExc

\* the value the second loop sees under key, when every conversion succeeds
Finalized(key) ==
    IF \E i \in DeclIdx : _factories[i].k = key
    THEN Converted(CHOOSE i \in DeclIdx : _factories[i].k = key).val
    ELSE Get(query_params, key)

ResultKeys == IF _box_all THEN Keys(query_params) ELSE Keys(_factories)

ChainPasses(key) ==
    \A j \in 1..Len(_params[key]) :
        PredOutcome(_params[key][j], Finalized(key)).res = "true"
AllChainsPass == \A key \in ResultKeys : ChainPasses(key)

ValidInput == AllPresent /\ AllConvert /\ AllChainsPass

\* the dictionary behind the yielded FrozenBox
ViewDct == result

\* ------------------------------------------------------------------------
\* Claims
\* ------------------------------------------------------------------------

\* C1: when every declared parameter is present, every converter succeeds
\* and every predicate chain passes, __enter__ succeeds and the yielded view
\* holds converter(raw[name]) under every declared name (the raw string for
\* a None converter).
C1_ViewHoldsConverted ==
    (Entered /\ ValidInput) =>
        /\ pc # "enter_raised"
        /\ view = "result"
        /\ \A i \in DeclIdx :
              /\ Has(ViewDct, _factories[i].k)
              /\ Get(ViewDct, _factories[i].k) = Converted(i).val
              /\ (_factories[i].v = "None" =>
                    Get(ViewDct, _factories[i].k) = Get(query_params, _factories[i].k))

C1_Witness ==
    /\ pc = "block"
    /\ Len(_factories) = 2
    /\ \E i \in DeclIdx : _factories[i].v = "int" /\ Get(ViewDct, _factories[i].k) = IntVal(5)
    /\ \E i \in DeclIdx : _factories[i].v = "None"
    /\ \E key \in ResultKeys : _params[key] # <<>>

\* C2: the block runs only after a validation pass that succeeded; when a
\* conversion or a predicate chain fails during __enter__, an error leaves
\* the session, the block never runs and no view is yielded.
C2_BlockOnlyAfterSuccess ==
    /\ (Entered /\ (~ValidInput \/ validateExc # NoExc)) =>
          /\ pc = "enter_raised"
          /\ raised # NoExc
          /\ blockRuns = 0
          /\ view = "None"
    /\ (blockRuns > 0 \/ view # "None") => (validateExc = NoExc /\ ValidInput)

C2_Witness ==
    /\ pc = "enter_raised"
    /\ validateExc.type = "InvalidQueryParamException"
    /\ validateExc.detail.kind = "invalid_value"
    /\ blockRuns = 0
    /\ view = "None"

SinkRaisesTypeError ==
    log_enabled /\ \E i \in 1..Len(log_factories) : log_factories[i] = "raisesTypeError"

\* What leaves __exit__ for an exception that is not the bad-input error
Reclassified(exc) ==
    IF SinkRaisesTypeError THEN PlainExc("TypeError")
    ELSE APIException(InternalDetail, exc.type)

C4_ExitExactlyOnce ==
    /\ pc \in {"enter_raised", "exited", "block_raised"} => exitCalls = 1
    /\ pc \in {"new", "ctor_raised", "ready", "block"} => exitCalls = 0

C4_Witness ==
    /\ pc = "enter_raised"
    /\ validateExc.type = "OSError"
    /\ exitCalls = 1

\* ------------------------------------------------------------------------
\* The invocation log of the pass
\* ------------------------------------------------------------------------
CallIdx == 1..Len(calls)
IsCast(i) == calls[i].op = "cast"
IsPred(i) == calls[i].op = "pred"
\* the exception the i-th call, a converter call, raised (NoExc if none)
CastExcAt(i) == Cast(calls[i].fn, calls[i].arg.s).exc
\* the outcome of the i-th call, a predicate call
PredAt(i) == PredOutcome(calls[i].fn, calls[i].arg)
CallFails(i) ==
    IF IsCast(i) THEN CastExcAt(i) # NoExc ELSE PredAt(i).res # "true"

Absent == { i \in DeclIdx : ~Present(i) }
FirstAbsent == CHOOSE i \in Absent : \A j \in Absent : i <= j
\* positions of declaration and of result order
DeclPos(name) == CHOOSE i \in DeclIdx : _factories[i].k = name
ResultPos(name) == CHOOSE i \in 1..Len(result) : result[i].k = name

\* C5 as stated: whenever a declared parameter is absent, __enter__ fails
\* with the MissingParameter error (400) for an absent parameter, whatever
\* the other declared parameters are.
C5_MissingAlwaysReported ==
    (Entered /\ Absent # {}) =>
        /\ raised.type = "InvalidQueryParamException"
        /\ raised.status = HTTP_400_BAD_REQUEST
        /\ raised.detail.kind = "missing"
        /\ \E i \in Absent : raised.detail.param = _factories[i].k

\* C5 amended: when a declared parameter is absent and every parameter
\* declared before it is present and converted without error, __enter__
\* fails with the MissingParameter error (400) for the first absent
\* parameter, whatever the later declarations and the predicates are, and
\* only that failure is reported; when the converter of an earlier
\* declaration fails, the pass ends there and MissingParameter is not what
\* it reports for the absent one.
C5_MissingReportedUnlessMasked ==
    (Entered /\ Absent # {}) =>
        /\ pc = "enter_raised"
        /\ IF \A j \in 1..(FirstAbsent - 1) : Converted(j).exc = NoExc
           THEN /\ raised = InvalidQueryParamException(
                               MissingDetail(_factories[FirstAbsent].k),
                               HTTP_400_BAD_REQUEST, "None")
                /\ logCalls = 0
           ELSE /\ calls # <<>>
                /\ IsCast(Len(calls))
                /\ CastExcAt(Len(calls)) # NoExc
                /\ DeclPos(calls[Len(calls)].param) < FirstAbsent
                /\ \A i \in Absent : raised.detail.param # _factories[i].k

C5_Witness ==
    /\ pc = "enter_raised"
    /\ Len(_factories) = 2
    /\ Absent = {1}
    /\ Converted(2).exc.type = "ValueError"
    /\ raised.detail = MissingDetail(_factories[1].k)

\* C6: when the converter of a declared, present parameter raises ValueError
\* or TypeError on its raw string, __enter__ fails with the bad-input error
\* (InvalidQueryParamException, 400) of kind InvalidType naming that
\* parameter.
C6_InvalidTypeReported ==
    \A i \in CallIdx :
        (IsCast(i) /\ CastExcAt(i).type \in {"ValueError", "TypeError"}) =>
            /\ pc = "enter_raised"
            /\ raised = InvalidQueryParamException(
                            [kind |-> "invalid_type", param |-> calls[i].param,
                             value |-> NoValue,
                             expected |-> IF calls[i].fn = "int" THEN "int" ELSE ""],
                            HTTP_400_BAD_REQUEST, "None")
            /\ logCalls = 0

C6_Witness ==
    /\ pc = "enter_raised"
    /\ Len(calls) = 2
    /\ IsCast(2)
    /\ CastExcAt(2).type = "ValueError"
    /\ raised.detail.kind = "invalid_type"
    /\ raised.detail.param = _factories[2].k

C8_PredicateFailureDetail ==
    \A i \in CallIdx :
        (IsPred(i) /\ (PredAt(i).res = "false" \/
                       (PredAt(i).res = "raise" /\
                        PredAt(i).exc.type = "QvalValidationError"))) =>
            /\ i = Len(calls)
            /\ pc = "enter_raised"
            /\ raised.type = "InvalidQueryParamException"
            /\ raised.status = HTTP_400_BAD_REQUEST
            /\ raised.cause = "QvalValidationError"
            /\ calls[i].arg = Finalized(calls[i].param)
            /\ raised.detail =
                  IF PredAt(i).res = "raise"
                  THEN PredAt(i).exc.detail
                  ELSE [kind |-> "invalid_value", param |-> calls[i].param,
                        value |-> Finalized(calls[i].param), expected |-> ""]

C8_Witness ==
    /\ pc = "enter_raised"
    /\ \E key \in ResultKeys :
          /\ _params[key] = << "interval", "ne0" >>
          /\ calls[Len(calls)] = CallEvent("pred", key, "interval", IntVal(0))
    /\ raised.detail.kind = "custom"

\* C9: within one pass the first loop fully precedes the second: no
\* converter is called after a predicate, a predicate is only called once
\* the converter of every declared parameter has run and its result is
\* stored, predicates see the stored converted values, and a predicate
\* failure is reported only after all the conversions.
C9_ConversionPrecedesValidation ==
    /\ \A i, j \in CallIdx : (IsPred(i) /\ IsCast(j)) => j < i
    /\ (\E i \in CallIdx : IsPred(i)) =>
          \A d \in DeclIdx :
              /\ \E j \in CallIdx : IsCast(j) /\ calls[j].param = _factories[d].k
              /\ Get(result, _factories[d].k) = Converted(d).val
    /\ \A i \in CallIdx : IsPred(i) => calls[i].arg = Finalized(calls[i].param)
    /\ (Entered /\ validateExc.cause = "QvalValidationError") =>
          Cardinality({ j \in CallIdx : IsCast(j) }) = Len(_factories)

C9_Witness ==
    /\ pc = "enter_raised"
    /\ Len(calls) = 3
    /\ IsCast(1) /\ IsCast(2) /\ IsPred(3)
    /\ calls[3].param = _factories[1].k
    /\ calls[3].arg.t = "int"
    /\ validateExc.detail.kind = "invalid_value"

\* C10: validation is fail-fast: calls are made in processing order
\* (declaration order in the first loop, result order in the second), the
\* first failure ends the pass with one error about the parameter being
\* processed, and no converter or predicate is called after it.
C10_FailFast ==
    /\ \A i \in CallIdx : CallFails(i) => (i = Len(calls) /\ validateExc # NoExc)
    /\ \A i \in CallIdx : IsCast(i) => calls[i].param = _factories[i].k
    /\ \A i, j \in CallIdx :
          (IsPred(i) /\ IsPred(j) /\ i < j) =>
              ResultPos(calls[i].param) <= ResultPos(calls[j].param)
    /\ (Entered /\ validateExc # NoExc) =>
          IF calls # <<>> /\ CallFails(Len(calls))
          THEN validateExc.detail.kind \in {"missing", "invalid_type", "invalid_value"}
                  => validateExc.detail.param = calls[Len(calls)].param
          ELSE /\ Absent # {}
               /\ validateExc.detail = MissingDetail(_factories[FirstAbsent].k)
               /\ Len(calls) = FirstAbsent - 1
    /\ (Entered /\ validateExc = NoExc) =>
          /\ Cardinality({ i \in CallIdx : IsCast(i) }) = Len(_factories)
          /\ \A key \in ResultKeys :
                Cardinality({ i \in CallIdx : IsPred(i) /\ calls[i].param = key })
                    = Len(_params[key])

C10_Witness ==
    /\ pc = "enter_raised"
    /\ Len(result) = 2
    /\ ~ChainPasses(result[1].k)
    /\ ~ChainPasses(result[2].k)
    /\ _params[result[2].k] # <<>>
    /\ calls[Len(calls)].param = result[1].k
    /\ \A i \in CallIdx : IsPred(i) => calls[i].param # result[2].k

\* C11: after a successful pass the keys of the view are exactly the declared
\* names when box_all is off and exactly the keys of the request when it is
\* on; a declared key holds its converted value and, with box_all on, an
\* undeclared key holds its raw string.
C11_ViewKeySet ==
    view = "result" =>
        /\ Keys(ViewDct) = (IF _box_all THEN Keys(query_params) ELSE Keys(_factories))
        /\ \A i \in 1..Len(ViewDct) : \A j \in 1..Len(ViewDct) :
              ViewDct[i].k = ViewDct[j].k => i = j
        /\ \A key \in Keys(ViewDct) :
              IF key \in Keys(_factories)
              THEN Get(ViewDct, key) = Converted(DeclPos(key)).val
              ELSE /\ _box_all
                   /\ Get(ViewDct, key) = Get(query_params, key)
                   /\ Get(ViewDct, key).t = "str"

C11_Witness ==
    /\ pc = "block"
    /\ _box_all
    /\ Keys(_factories) = {"b"}
    /\ Keys(ViewDct) = {"a", "b"}
    /\ Get(ViewDct, "a") = StrVal(<<"5">>)
    /\ Get(ViewDct, "b") = IntVal(5)

\* what a client is shown of an exception: everything but its cause
ClientVisible(e) == [type |-> e.type, status |-> e.status, detail |-> e.detail]

\* exception objects handed to __exit__
ExitInputs == { UserExc(t) : t \in BlockExcTypes } \cup { PlainExc("TypeError") }

\* the exception __exit__ was given in this acquisition
ExitSource == IF pc = "block_raised" THEN blockExc ELSE validateExc

\* C12: the client-visible content of the internal error does not depend on
\* the original failure: whatever two exceptions __exit__ is given, the
\* APIExceptions it raises carry the same fixed detail and status 500, and
\* the original exception appears only as the cause.
C12_InternalErrorContentFixed ==
    /\ (pc \in {"enter_raised", "block_raised"} /\ raised.type = "APIException") =>
          /\ ClientVisible(raised) = ClientVisible(APIException(InternalDetail, "None"))
          /\ raised.status = HTTP_500_INTERNAL_SERVER_ERROR
          /\ raised.cause = ExitSource.type
    /\ \A e1 \in ExitInputs : \A e2 \in ExitInputs :
          LET r1 == Exit(e1, log_enabled, log_factories).raised
              r2 == Exit(e2, log_enabled, log_factories).raised
          IN  (r1.type = "APIException" /\ r2.type = "APIException") =>
                  /\ ClientVisible(r1) = ClientVisible(r2)
                  /\ r1.cause = e1.type
                  /\ r2.cause = e2.type

C12_Witness ==
    /\ pc = "block_raised"
    /\ blockExc = UserExc("APIException")
    /\ raised = APIException(InternalDetail, "APIException")
    /\ raised.detail # blockExc.detail

\* C13: an InvalidQueryParamException raised by the pass leaves the session
\* as it is (status 400, structured detail) and is never reported to the
\* logger; whenever the session raises the internal error, log.error has been
\* called once before (and every factory of an enabled logger was invoked);
\* entering and leaving without an exception reports nothing.
C13_LogPolicy ==
    /\ (Entered /\ validateExc.type = "InvalidQueryParamException") =>
          /\ pc = "enter_raised"
          /\ raised = validateExc
          /\ raised.status = HTTP_400_BAD_REQUEST
          /\ raised.detail.kind \in {"missing", "invalid_type", "invalid_value",
                                     "custom", "user"}
          /\ logCalls = 0
          /\ sinkCalls = <<>>
    /\ (pc \in {"enter_raised", "block_raised"} /\ raised.type = "APIException") =>
          /\ logCalls = 1
          /\ log_enabled => sinkCalls = [i \in 1..Len(log_factories) |-> i]
    /\ pc \in {"block", "exited"} =>
          /\ raised = NoExc
          /\ logCalls = 0
          /\ sinkCalls = <<>>

C13_Witness ==
    /\ pc = "enter_raised"
    /\ validateExc.type = "OSError"
    /\ raised = APIException(InternalDetail, "OSError")
    /\ logCalls = 1
    /\ sinkCalls = << 1, 2 >>

\* C18 as stated: with box_all off, a declared parameter absent from the
\* request is reported by the pass, at __enter__, as
\* InvalidQueryParamException (400) with the message naming that parameter.
C18_MissingReportedAtEntry ==
    (pc # "new" /\ ~_box_all /\ Absent # {}) =>
        /\ pc # "ctor_raised"
        /\ Entered =>
              /\ pc = "enter_raised"
              /\ raised.type = "InvalidQueryParamException"
              /\ raised.status = HTTP_400_BAD_REQUEST
              /\ raised.detail.kind = "missing"
              /\ \E i \in Absent : raised.detail.param = _factories[i].k


\* the outcome of the i-th predicate of the chain on the value of the call
ChainOutcome(i) == PredOutcome(predicates[i], op.arg)

\* C14: a Validator calls its predicates in insertion order on the given
\* value, returns True exactly when every predicate returned a truthy
\* result, stops at the first falsy result without calling the later
\* predicates, and returns True for every value when it holds no predicate;
\* add() appends the predicate at the end and returns the Validator itself.
C14_ChainEvaluation ==
    /\ [](op.op = "call" =>
            /\ Len(calls) <= Len(predicates)
            /\ \A i \in 1..Len(calls) :
                  calls[i] = CallEvent("pred", "", predicates[i], op.arg)
            /\ returned = "True" <=>
                  \A i \in 1..Len(predicates) : ChainOutcome(i).res = "true"
            /\ returned = "True" => (Len(calls) = Len(predicates) /\ raised = NoExc)
            /\ returned = "False" =>
                  /\ calls # <<>>
                  /\ ChainOutcome(Len(calls)).res = "false"
                  /\ \A i \in 1..(Len(calls) - 1) : ChainOutcome(i).res = "true"
                  /\ raised = NoExc
            /\ returned = "None" =>
                  /\ raised # NoExc
                  /\ ChainOutcome(Len(calls)).res = "raise"
            /\ predicates = <<>> => returned = "True")
    /\ [][op'.op = "add" =>
            /\ predicates' = predicates \o << op'.fn >>
            /\ returned' = "self"]_vars

C14_Witness ==
    /\ op = CallEvent("call", "", "", IntVal(0))
    /\ predicates = << "ge0", "ne0", "interval" >>
    /\ returned = "False"
    /\ Len(calls) = 2

BuilderNames == {"positive", "gt", "lt", "eq", "nonzero"}

\* the comparison each builder is said to make, on an integer x
Stated(name, x, value) ==
    CASE name = "positive" -> x >= 0
      [] name = "gt" -> x > value
      [] name = "lt" -> x < value
      [] name = "eq" -> x = value
      [] name = "nonzero" -> x # 0

\* the predicates registered for key, in call order
RECURSIVE RegisteredFor(_, _)
RegisteredFor(key, log) ==
    IF log = <<>> THEN <<>>
    ELSE (IF Head(log).param = key THEN << Head(log).predicate >> ELSE <<>>)
         \o RegisteredFor(key, Tail(log))

\* the predicates called on key by the last pass, in call order
RECURSIVE CalledOn(_, _)
CalledOn(key, log) ==
    IF log = <<>> THEN <<>>
    ELSE (IF Head(log).op = "pred" /\ Head(log).param = key
          THEN << Head(log).fn >> ELSE <<>>)
         \o CalledOn(key, Tail(log))

RegisteredSoFar ==
    LET log == SubSeq(registered, 1, appliedAt)
    IN  [k \in DOMAIN validators \cup { log[i].param : i \in 1..Len(log) } |->
            (IF k \in DOMAIN validators THEN validators[k] ELSE <<>>)
                \o RegisteredFor(k, log)]

\* C15: apply_to_request(request) returns a new validator and leaves the
\* original as it is; as long as nothing is registered afterwards, the new
\* validator has, on the new request, the outcome of a validator built from
\* the same declarations, the same box_all and every predicate registered on
\* the original before the call: the same constructor failure, the same
\* chains, and after __enter__ the same view or the same exception.
C15_ApplyEquivalentToFresh ==
    /\ []((other.pc # "none" /\ Len(registered) = appliedAt) =>
            LET fresh == NewValidator(other.query_params, _factories,
                                      RegisteredSoFar, _box_all)
                v == Validate(_factories, other.query_params, fresh._params,
                              fresh.result)
                e == EnterSession(v, log_enabled, log_factories)
            IN  /\ (other.pc = "ctor_raised") = (fresh.pc = "ctor_raised")
                /\ other.pc = "ctor_raised" => other.raised = fresh.raised
                /\ other.pc = "ready" =>
                      /\ other.result = fresh.result
                      /\ \A k \in Keys(fresh.result) :
                            other._params[k] = fresh._params[k]
                /\ other.pc \in {"block", "enter_raised"} =>
                      /\ other.raised = e.raised
                      /\ other.validateExc = v.exc
                      /\ other.view = e.view
                      /\ other.result = v.result
                      /\ other.calls = v.calls)
    /\ [][(other.pc = "none" /\ other'.pc # "none") =>
            /\ returned' = (IF other'.pc = "ready" THEN "new" ELSE "None")
            /\ UNCHANGED <<session, registered>>]_vars

C15_Witness ==
    /\ pc = "block"
    /\ Get(result, "a") = IntVal(5)
    /\ validators # <<>>
    /\ registered = << [param |-> "a", predicate |-> gt(0, "id")] >>
    /\ appliedAt = 1
    /\ other.pc = "enter_raised"
    /\ other.query_params = << [k |-> "a", v |-> StrVal(<<"0">>)] >>
    /\ other.raised.detail.kind = "invalid_value"
    /\ Len(other.calls) = 2

\* C16: every write on the view, p[key] = value or p.key = value, for a key
\* the view holds or a new one, raises TypeError and leaves the values and
\* the keys of the view as they were.
C16_ViewWritesFail ==
    [][((op' # op \/ raised' # raised) /\ pc' = pc /\
        op'.op \in {"setitem", "setattr"}) =>
          /\ view = "result"
          /\ raised' = PlainExc("TypeError")
          /\ ViewDct' = ViewDct
          /\ Keys(ViewDct') = Keys(ViewDct)
          /\ view' = view]_vars

C16_Witness ==
    /\ pc = "block"
    /\ op = CallEvent("setattr", "n", "", IntVal(7))
    /\ raised = PlainExc("TypeError")
    /\ Keys(ViewDct) = {"a", "b"}
    /\ Get(ViewDct, "a") = IntVal(5)

\* C17 as stated: once a view exists, nothing changes what it returns:
\* neither a write of the caller, through the view or through its __dct__
\* attribute, nor a later pass of the validator.
C17_ViewNeverChanges ==
    [][view = "result" => ViewDct' = ViewDct]_vars

\* the wrapped form of a request argument: a dict is put in a DummyRequest,
\* a request object stays as it is
Wrapped(x) == [x EXCEPT !.kind = "request"]
RequestLike(x) == x.kind = "dict" \/ x.kind = "request"
\* a request is pre-bound, or the first or the second argument is one
Locatable ==
    \/ request_ # NoArg
    \/ args # <<>> /\ RequestLike(args[1])
    \/ Len(args) > 1 /\ RequestLike(args[2])
\* where the request of the call is: 0 for the pre-bound request
RequestPos ==
    IF request_ # NoArg THEN 0
    ELSE IF RequestLike(args[1]) THEN 1 ELSE 2
\* the query parameters of that request
LocatedParams ==
    IF RequestPos = 0 THEN request_.q ELSE args[RequestPos].q

\* C20: when the wrapped function is called, it receives the caller's
\* positional arguments in their order, with the pre-bound request put in
\* front of them or else the located request (the first argument, or the
\* second when the first is not request-like) replaced by its wrapped form,
\* then the view as the last positional argument, and the caller's keyword
\* arguments unchanged; the request that is validated is the located one,
\* the wrapped function is called once the pass has succeeded, and the
\* decorated call returns what the wrapped function returned.
C20_HandlerArguments ==
    /\ (Locatable /\ pc # "call") =>
          /\ pc # "call_raised"
          /\ query_params = LocatedParams
          /\ (pc \in {"exited", "block_raised"}) = handled.called
    /\ handled.called =>
        /\ view = "result"
        /\ handled.kwargs = kwargs
        /\ handled.args[Len(handled.args)] = ViewArg
        /\ IF RequestPos = 0
           THEN /\ Len(handled.args) = Len(args) + 2
                /\ handled.args[1] = Wrapped(request_)
                /\ \A i \in 1..Len(args) : handled.args[i + 1] = args[i]
           ELSE /\ Len(handled.args) = Len(args) + 1
                /\ Len(args) >= RequestPos
                /\ RequestLike(args[RequestPos])
                /\ \A i \in 1..Len(args) :
                      handled.args[i] =
                          IF i = RequestPos THEN Wrapped(args[i]) ELSE args[i]
        /\ pc = "exited" => (returned = handled.ret /\ raised = NoExc)
        /\ pc = "block_raised" => (returned = "None" /\ raised # NoExc)

C20_Witness ==
    /\ pc = "exited"
    /\ request_ = NoArg
    /\ args = << ObjectArg("self"), DictArg(RequestA), RequestArg(RequestB) >>
    /\ kwargs # <<>>
    /\ handled.args = << ObjectArg("self"), RequestArg(RequestA),
                         RequestArg(RequestB), ViewArg >>
    /\ handled.kwargs = kwargs
    /\ returned = "r2"

\* C21 as stated: a decorated call in which no request can be located (no
\* pre-bound request, neither the first nor the second positional argument
\* request-like, a call without positional arguments included) fails with
\* ValueError before the validator is built, before any converter, predicate
\* or wrapped function runs, and without __exit__ reclassifying the error.
C21_NoRequestValueError ==
    (~Locatable /\ pc # "call") =>
        /\ pc = "call_raised"
        /\ raised = PlainExc("ValueError")
        /\ calls = <<>>
        /\ ~handled.called
        /\ exitCalls = 0
        /\ logCalls = 0

\* C22 as stated: when the converter of a declared parameter that is present
\* in the request raises KeyError, __enter__ fails with the bad-input error
\* of kind InvalidType naming that parameter, not with MissingParameter.
C22_ConverterKeyErrorInvalidType ==
    \A i \in CallIdx :
        (IsCast(i) /\ CastExcAt(i).type = "KeyError") =>
            /\ Has(query_params, calls[i].param)
            /\ pc = "enter_raised"
            /\ raised.type = "InvalidQueryParamException"
            /\ raised.detail.kind = "invalid_type"
            /\ raised.detail.param = calls[i].param

\* C23 as stated: two validators share no mutable state: registering a
\* predicate on the original, by check, add_predicate or a builder, never
\* changes the outcome of a pass of the validator that apply_to_request
\* returned, whenever the registration is made.
C23_RegisteringLeavesOtherAlone ==
    [][(registered' # registered /\ other.pc = "ready") =>
          LET before == Validate(_factories, other.query_params, other._params,
                                 other.result)
              after == Validate(_factories, other'.query_params, other'._params,
                                other'.result)
          IN  /\ after.exc = before.exc
              /\ after.result = before.result
              /\ after.calls = before.calls]_vars

\* C24 as stated: the raw parameters are a snapshot taken by the constructor:
\* whatever the caller adds to, removes from or changes in the source
\* dictionary between construction and entry, the pass has the outcome
\* determined by the raw values held at construction (which the constructor
\* copied into self.result for every key the pass reads).
C24_PassUsesSnapshot ==
    [][(pc = "ready" /\ pc' \in {"block", "enter_raised"}) =>
          LET snapshot == result
              pass == Validate(_factories, snapshot, _params, result)
          IN  /\ validateExc' = pass.exc
              /\ result' = pass.result
              /\ calls' = pass.calls]_vars

\* C25: the second loop evaluates the chain of every key of self.result and
\* of no other name.  A predicate is only ever called on a key of the result;
\* a chain held for an undeclared key that box_all put into the result is
\* called on the raw string, and a false result of it is the bad-input error
\* naming that key; a pass without error has called every predicate of every
\* key of the result; chains held for names outside the result (undeclared
\* and absent, or undeclared with box_all off) are never called and cannot
\* fail the pass.
C25_ChainsOfResultKeysOnly ==
    /\ \A i \in CallIdx :
          IsPred(i) =>
              /\ calls[i].param \in Keys(result)
              /\ calls[i].param \notin Keys(_factories) =>
                    /\ _box_all
                    /\ calls[i].arg = Get(query_params, calls[i].param)
                    /\ calls[i].arg.t = "str"
                    /\ PredAt(i).res = "false" =>
                          /\ pc = "enter_raised"
                          /\ raised = InvalidQueryParamException(
                                          InvalidValueDetail(calls[i].param,
                                                             calls[i].arg),
                                          HTTP_400_BAD_REQUEST, "QvalValidationError")
    /\ (Entered /\ validateExc = NoExc) =>
          \A key \in Keys(result) : CalledOn(key, calls) = _params[key]
    /\ (Entered /\ AllPresent /\ AllConvert
               /\ \A key \in Keys(result) : ChainPasses(key)) =>
          /\ validateExc = NoExc
          /\ pc # "enter_raised"

C25_Witness ==
    /\ pc = "enter_raised"
    /\ _box_all
    /\ Keys(_factories) = {"a"}
    /\ Keys(result) = {"a", "b"}
    /\ registered = << [param |-> "b", predicate |-> nonzero("id")],
                       [param |-> "b", predicate |-> eq(5, "len")] >>
    /\ calls[Len(calls)] = CallEvent("pred", "b", eq(5, "len"), StrVal(<<"x">>))
    /\ raised.detail = InvalidValueDetail("b", StrVal(<<"x">>))

\* C26 as stated: positive(param, transform) registers a "greater than zero"
\* check: the predicate accepts a value exactly when transform(value) > 0,
\* and a pass over a value whose transform is 0 fails with the bad-input
\* error for that parameter.
C26_PositiveIsGreaterThanZero ==
    /\ [][(registered' # registered /\ op'.op = "positive") =>
            LET p == registered'[Len(registered')].predicate
            IN  \A v \in ChainValues \cup RawValues :
                    LET x == Transform(op'.fn, v)
                    IN  (x.exc = NoExc /\ x.val.t = "int") =>
                            (PredOutcome(p, v).res = "true" <=> x.val.i > 0)]_vars
    /\ [](\A i \in CallIdx :
            (/\ IsPred(i)
             /\ \E t \in Transforms :
                   /\ calls[i].fn = positive(t)
                   /\ Transform(t, calls[i].arg) = CastOk(IntVal(0))) =>
                /\ pc = "enter_raised"
                /\ raised = InvalidQueryParamException(
                                InvalidValueDetail(calls[i].param, calls[i].arg),
                                HTTP_400_BAD_REQUEST, "QvalValidationError"))

\* the factories of fs that raise TypeError when built or called
TypeErrorSinks(fs) == { i \in 1..Len(fs) : fs[i] = "raisesTypeError" }
\* the factories an enabled logger invokes: all of them, or those up to the
\* first one that raises TypeError
InvokedSinks(fs) ==
    IF TypeErrorSinks(fs) = {} THEN [i \in 1..Len(fs) |-> i]
    ELSE LET first == CHOOSE i \in TypeErrorSinks(fs) :
                          \A j \in TypeErrorSinks(fs) : i <= j
         IN  [i \in 1..first |-> i]

\* C27: an enabled logger invokes its factories in order; an exception of a
\* factory is swallowed and the later factories are still invoked, except
\* TypeError, which leaves the logging call at once (and then the session,
\* in place of the internal error); a disabled logger invokes no factory.
C27_LoggerDump ==
    /\ Dump(TRUE, log_factories).invoked = InvokedSinks(log_factories)
    /\ Dump(TRUE, log_factories).exc =
          (IF TypeErrorSinks(log_factories) = {} THEN NoExc
           ELSE PlainExc("TypeError"))
    /\ Dump(FALSE, log_factories) = [exc |-> NoExc, invoked |-> <<>>]
    /\ (pc \in {"enter_raised", "block_raised"} /\ logCalls > 0) =>
          /\ logCalls = 1
          /\ sinkCalls = (IF log_enabled THEN InvokedSinks(log_factories) ELSE <<>>)
          /\ raised = (IF log_enabled /\ TypeErrorSinks(log_factories) # {}
                       THEN PlainExc("TypeError")
                       ELSE APIException(InternalDetail, ExitSource.type))

C27_Witness ==
    /\ pc = "block_raised"
    /\ log_enabled
    /\ log_factories = << "raisesError", "raisesTypeError" >>
    /\ sinkCalls = << 1, 2 >>
    /\ raised = PlainExc("TypeError")

\* the i-th call, a predicate call, raised something else than
\* QvalValidationError
PredicateRaisedAt(i) ==
    /\ IsPred(i)
    /\ PredAt(i).res = "raise"
    /\ PredAt(i).exc.type # "QvalValidationError"

C29_ResultKeysHaveChains ==
    /\ [](pc \in {"ready", "block", "enter_raised"} =>
            /\ Keys(result) \subseteq DOMAIN _params
            /\ validateExc # PlainExc("KeyError"))
    /\ [](other.pc \in {"ready", "block", "enter_raised"} =>
            /\ Keys(other.result) \subseteq DOMAIN other._params
            /\ other.validateExc # PlainExc("KeyError"))
    /\ [][/\ pc # "new" => KeySeq(result') = KeySeq(result)
          /\ other.pc # "none" => KeySeq(other'.result) = KeySeq(other.result)
          /\ DOMAIN _params \subseteq DOMAIN _params'
          /\ other.pc = "ready" => DOMAIN other._params \subseteq DOMAIN other'._params
         ]_vars

C29_Witness ==
    /\ pc = "block"
    /\ _box_all
    /\ Len(registered) = 2
    /\ other.pc = "block"
    /\ Keys(other.result) = {"a", "b"}
    /\ Keys(result) = {"a"}
    /\ other.calls # <<>>

\* C30: entering a validator again, after a pass that succeeded or one that
\* failed, has the outcome of the first entry: the same converter and
\* predicate calls on the same arguments, the same view contents or the same
\* exception.  Every pass converts the raw strings of the request, never a
\* value an earlier pass stored, and no step of a session writes to the
\* request's parameters.
C30_ReentrySameOutcome ==
    /\ [][(pc \in {"enter_raised", "exited", "block_raised"} /\
           pc' \in {"block", "enter_raised"}) =>
            /\ validateExc' = validateExc
            /\ calls' = calls
            /\ result' = result
            /\ (pc' = "block") = (validateExc = NoExc)
            /\ pc' = "block" => (view' = "result" /\ raised' = NoExc)
            /\ pc = "enter_raised" => (pc' = "enter_raised" /\ raised' = raised)
         ]_vars
    /\ [][query_params' = query_params]_vars
    /\ [](\A i \in CallIdx :
            IsCast(i) =>
                /\ calls[i].arg = Get(query_params, calls[i].param)
                /\ calls[i].arg.t = "str")

C30_Witness ==
    /\ pc = "block"
    /\ blockRuns = 1
    /\ blockExc = NoExc
    /\ Len(_factories) = 2
    /\ Get(result, "a") = IntVal(5)
    /\ Get(query_params, "a") = StrVal(<<"5">>)
    /\ validators # <<>>
    /\ Len(calls) = 3

====
